---- MODULE Spec2Model ----
(***************************************************************************)
(* Batch pipeline of the upscaler web application: the submission handler  *)
(* (app.process), the job registry (upscale.jobs.JobStore), the batch      *)
(* runner thread (app._run_job), the item processor                        *)
(* (upscale.processing.process_image) and the status poller (app.status).  *)
(*                                                                         *)
(* Text is modelled as a sequence of tokens.  A token is an atomic piece   *)
(* of text without tab or line break, except the two tokens TAB and NL,    *)
(* which are the tab and the newline character.                            *)
(***************************************************************************)
EXTENDS Integers, Sequences, FiniteSets, TLC

\* ------------------------------------------------------------------ bounds

\* Largest number of uploaded parts in one submission.
MaxFiles == 3

\* Largest number of uploaded parts in a submission that is polled.
MaxPollFiles == 2

\* config.max_size_passes as configured for the model runs (MAX_SIZE_PASSES).
MaxSizePasses == 2

\* Largest number of _unique_output_name calls on one used set.
MaxNameCalls == 3

\* Largest number of JobStore calls one thread makes.
MaxStoreCalls == 2

\* ------------------------------------------------------------------- text

TAB == "\t"
NL == "\n"

\* str.join: the pieces with sep between them.
RECURSIVE Join(_, _)
Join(sep, pieces) ==
    IF pieces = << >> THEN << >>
    ELSE IF Len(pieces) = 1 THEN pieces[1]
    ELSE pieces[1] \o sep \o Join(sep, Tail(pieces))

\* str.splitlines restricted to "\n": the lines of a text.
RECURSIVE SplitLines(_)
SplitLines(text) ==
    IF \A i \in 1..Len(text) : text[i] # NL THEN <<text>>
    ELSE LET k == CHOOSE i \in 1..Len(text) :
                      text[i] = NL /\ \A j \in 1..(i - 1) : text[j] # NL
         IN <<SubSeq(text, 1, k - 1)>> \o SplitLines(SubSeq(text, k + 1, Len(text)))

\* The tokens that are file extensions as os.path.splitext sees them.
ExtTokens == {".jpg", ".JPG", ".jpeg", ".txt"}

\* str.lower on an extension.
Lower(ext) == IF ext = <<".JPG">> THEN <<".jpg">> ELSE ext

\* os.path.basename: what follows the last path separator.
RECURSIVE Basename(_)
Basename(name) ==
    IF \A i \in 1..Len(name) : name[i] # "/" THEN name
    ELSE Basename(Tail(name))

\* os.path.splitext: <<root, ext>>; a leading dot does not start an extension.
SplitExt(name) ==
    IF Len(name) > 1 /\ name[Len(name)] \in ExtTokens
    THEN <<SubSeq(name, 1, Len(name) - 1), <<name[Len(name)]>>>>
    ELSE <<name, << >>>>

\* c.isalnum() or c in ("-", "_", " ")
KeptChar(c) == c \in {"a", "b", "n", "-", "_", " "}

\* str.strip on a token sequence: leading and trailing blanks removed.
RECURSIVE Strip(_)
Strip(s) ==
    IF s = << >> THEN s
    ELSE IF Head(s) = " " THEN Strip(Tail(s))
    ELSE IF s[Len(s)] = " " THEN Strip(SubSeq(s, 1, Len(s) - 1))
    ELSE s

safe_name(name) ==
    LET root == SplitExt(Basename(name))[1]
        cleaned == Strip(SelectSeq(root, KeptChar))
    IN IF cleaned = << >> THEN <<"image">> ELSE cleaned

ALLOWED_EXTS == {<<".jpg">>, <<".jpeg">>}

\* Faulty variant of ProbeName: the counter goes up by two.
RECURSIVE ProbeName_ByTwo(_, _, _, _)
ProbeName_ByTwo(root, ext, used, counter) ==
    LET candidate == root \o <<"_", ToString(counter)>> \o ext
    IN IF candidate \notin used THEN candidate
       ELSE ProbeName_ByTwo(root, ext, used, counter + 2)

\* The while loop of _unique_output_name (app.py lines 60-65) from the given
\* counter on: the first candidate root_counter.ext that is not in used.
RECURSIVE ProbeName(_, _, _, _)
ProbeName(root, ext, used, counter) ==
    LET candidate == root \o <<"_", ToString(counter)>> \o ext
    IN IF candidate \notin used THEN candidate
       ELSE ProbeName(root, ext, used, counter + 1)

\* Faulty variant of _unique_output_name: a name in use is handed out again.
_unique_output_name_NoProbe(base, used) ==
    <<base, used \cup {base}>>

\* _unique_output_name: <<name returned, used set afterwards>>.
_unique_output_name(base, used) ==
    IF base \notin used THEN <<base, used \cup {base}>>
    ELSE LET candidate == ProbeName(SplitExt(base)[1], SplitExt(base)[2], used, 2)
         IN <<candidate, used \cup {candidate}>>

\* ------------------------------------------------------ upscaling strategy

\* Whether get_adapter constructs an AIFSRCNNAdapter: UPSCALE_ADAPTER selects
\* it, or selects Topaz while the Topaz CLI is not available.
ConstructsAI(cfg) ==
    \/ cfg.upscale_adapter = "topaz" /\ ~cfg.topaz_available
    \/ cfg.upscale_adapter \in {"ai", "fsrcnn", "opencv"}

\* AIFSRCNNAdapter._ensure_model, called by __post_init__ and by nothing
\* else: "urlretrieve" when the model file is not on disk and is fetched,
\* "found" when it is there, "none" when no AIFSRCNNAdapter is constructed.
_ensure_model(cfg) ==
    IF ~ConstructsAI(cfg) THEN "none"
    ELSE IF cfg.model_on_disk THEN "found"
    ELSE "urlretrieve"

\* Faulty variant of get_adapter: the model is fetched and loaded on first
\* use, so constructing the adapter never fails.
get_adapter_Lazy(cfg) ==
    IF cfg.upscale_adapter = "topaz" /\ cfg.topaz_available THEN "topaz"
    ELSE IF ConstructsAI(cfg) THEN "ai"
    ELSE "pillow"

\* adapters.get_adapter: the adapter class constructed for a configuration,
\* or "raise" when AIFSRCNNAdapter.__post_init__ fails (the model asset can be
\* neither found nor fetched, or cannot be loaded).
get_adapter(cfg) ==
    LET normalized == cfg.upscale_adapter
        ai == IF cfg.model_ok THEN "ai" ELSE "raise"
    IN IF normalized = "topaz"
       THEN IF ~cfg.topaz_available THEN ai ELSE "topaz"
       ELSE IF normalized \in {"ai", "fsrcnn", "opencv"} THEN ai
       ELSE "pillow"

\* current_scale in pass k, as the fraction ScaleNum / ScaleDen of
\* scale * 1.15^(k-1) (processing.py line 212).
RECURSIVE Pow(_, _)
Pow(b, e) == IF e = 0 THEN 1 ELSE b * Pow(b, e - 1)

ScaleNum(scale, k) == scale * Pow(115, k - 1)
ScaleDen(k) == Pow(100, k - 1)

Max(a, b) == IF a >= b THEN a ELSE b

\* PillowAdapter.upscale / AIFSRCNNAdapter.upscale: the size of the image
\* returned, max(1, int(side * scale)) per side.
upscale(w, h, scale, k) ==
    [w |-> Max(1, (w * ScaleNum(scale, k)) \div ScaleDen(k)),
     h |-> Max(1, (h * ScaleNum(scale, k)) \div ScaleDen(k))]

\* ------------------------------------------------------------- the encoder

\* len(data) of img.save(..., quality=q): the image content's bytes per
\* hundred pixels at quality q, times the pixel count.  The bytes per hundred
\* pixels rise by slope per quality step, except at the one quality bump_q
\* where they are off the line by bump.
EncodedSize(content, pixels, q) ==
    (pixels \div 100) * (content.base + (q - 70) * content.slope
                            + IF q = content.bump_q THEN content.bump ELSE 0)

\* Faulty variant of BelowBand: no size counts as below the band.
BelowBand_Never(size, target_bytes) == FALSE

\* size < target_bytes * (1 - 0.12), in integers: 25 * size < 22 * target.
BelowBand(size, target_bytes) ==
    LET u == target_bytes \div 25
        v == target_bytes % 25
    IN size < 22 * u + (22 * v + 24) \div 25

\* size > target_bytes * (1 + 0.12), in integers: 25 * size > 28 * target.
AboveBand(size, target_bytes) ==
    LET u == target_bytes \div 25
        v == target_bytes % 25
    IN size > 28 * u + (28 * v) \div 25

Abs(x) == IF x < 0 THEN -x ELSE x

\* The while loop of _encode_jpeg_target_bytes from the state (low, high,
\* best): the record [size, q] returned.  best.q = 0 stands for best_data
\* being None, best.gap = -1 for float("inf").
RECURSIVE EncodeLoop(_, _, _, _, _, _)
EncodeLoop(content, pixels, target_bytes, low, high, best) ==
    IF low > high THEN [size |-> best.size, q |-> best.q]
    ELSE LET q == (low + high) \div 2
             size == EncodedSize(content, pixels, q)
             gap == Abs(size - target_bytes)
             nbest == IF best.gap = -1 \/ gap < best.gap
                      THEN [size |-> size, q |-> q, gap |-> gap]
                      ELSE best
         IN IF BelowBand(size, target_bytes)
            THEN EncodeLoop(content, pixels, target_bytes, q + 1, high, nbest)
            ELSE IF AboveBand(size, target_bytes)
            THEN EncodeLoop(content, pixels, target_bytes, low, q - 1, nbest)
            ELSE [size |-> size, q |-> q]

_encode_jpeg_target_bytes(content, pixels, target_bytes) ==
    EncodeLoop(content, pixels, target_bytes, 70, 98,
               [size |-> 0, q |-> 0, gap |-> -1])

\* ------------------------------------------------------ the item processor

\* None, for the optional numbers of a report.
None == -1

\* float("nan"), which the scale and target_mb fields of the form can hold.
NaN == -2

\* a < b on floats: False when either side is NaN.
Less(a, b) == a # NaN /\ b # NaN /\ a < b

\* round(len(data) / (1024 * 1024), 2), in hundredths of a megabyte.
SizeMb(len) ==
    (len \div 1048576) * 100 + ((len % 1048576) * 100 + 524288) \div 1048576

\* int(target_mb * 1024 * 1024)
TargetBytes(target_mb) == target_mb * 1024 * 1024

\* A ProcessResult with its ProcessReport; raised is TRUE when process_image
\* does not return but lets an exception through to its caller.
MkResult(raised, status, src, out, quality, size, notes) ==
    [raised |-> raised, status |-> status,
     src_w |-> src.w, src_h |-> src.h, out_w |-> out.w, out_h |-> out.h,
     quality |-> quality,
     size_mb |-> IF size = None THEN None ELSE SizeMb(size),
     notes |-> notes,
     output_bytes |-> size]

NoDims == [w |-> None, h |-> None]

\* Faulty variant of AfterLoop: the best result so far is reported as
\* target_not_met without its bytes.
AfterLoop_NoBytes(src, best, notes) ==
    IF best.size = None \/ best.q = None \/ best.w = None \/ best.h = None
    THEN MkResult(FALSE, "failed_processing", src, NoDims, None, None,
                  <<"Processing failed.">>)
    ELSE MkResult(FALSE, "target_not_met", src, [w |-> best.w, h |-> best.h],
                  best.q, None, notes)

\* Faulty variant of ReachedTarget: an encoding inside the tolerance band
\* of the encoder counts as reaching the target.
ReachedTarget_InBand(size, target_bytes) == ~BelowBand(size, target_bytes)

\* len(data) >= target_bytes (processing.py line 194).
ReachedTarget(size, target_bytes) == size >= target_bytes

\* Faulty variant of AfterLoop: going over the pixel limit is raised as an
\* error once the loop is left.
AfterLoop_RaisesOverLimit(src, best, notes) ==
    IF notes # << >>
    THEN MkResult(TRUE, "ValueError", src, NoDims, None, None, << >>)
    ELSE IF best.size = None \/ best.q = None \/ best.w = None \/ best.h = None
    THEN MkResult(FALSE, "failed_processing", src, NoDims, None, None,
                  <<"Processing failed.">>)
    ELSE MkResult(FALSE, "target_not_met", src, [w |-> best.w, h |-> best.h],
                  best.q, best.size,
                  Join(<<" ">>, notes \o
                       <<<<"Upscaled and exported, but minimum target size was not reached.">>>>))

\* The statements after the retry loop (processing.py lines 230-263).
AfterLoop(src, best, notes) ==
    IF best.size = None \/ best.q = None \/ best.w = None \/ best.h = None
    THEN MkResult(FALSE, "failed_processing", src, NoDims, None, None,
                  <<"Processing failed.">>)
    ELSE MkResult(FALSE, "target_not_met", src, [w |-> best.w, h |-> best.h],
                  best.q, best.size,
                  Join(<<" ">>, notes \o
                       <<<<"Upscaled and exported, but minimum target size was not reached.">>>>))

\* The retry loop of process_image from pass k on (lines 173-228).  Only
\* MemoryError is handled: the RuntimeError of TopazAdapter.upscale, the
\* ValueError of int(width * nan) and the cv2.error by which OpenCV reports
\* a failed allocation leave process_image.
RECURSIVE PassLoop(_, _, _, _, _, _, _, _)
PassLoop(content, adapter, scale, target_bytes, max_size_passes, max_output_pixels, k, best) ==
    LET src == [w |-> content.w, h |-> content.h]
    IN IF k > max_size_passes THEN AfterLoop(src, best, << >>)
       ELSE IF adapter = "topaz"
       THEN MkResult(TRUE, "RuntimeError", src, NoDims, None, None, << >>)
       ELSE IF scale = NaN
       THEN MkResult(TRUE, "ValueError", src, NoDims, None, None, << >>)
       ELSE IF content.oom_pass = k /\ adapter = "ai" /\ content.oom_in = "opencv"
       THEN MkResult(TRUE, "cv2.error", src, NoDims, None, None, << >>)
       ELSE IF content.oom_pass = k
       THEN MkResult(FALSE, "failed_processing", src, NoDims, None, None,
                     <<"Insufficient memory to process this file.">>)
       ELSE LET out == upscale(content.w, content.h, scale, k)
            IN IF out.w * out.h > max_output_pixels
               THEN AfterLoop(src, best, <<<<"Output exceeded max pixel limit.">>>>)
               ELSE LET enc == _encode_jpeg_target_bytes(content, out.w * out.h,
                                                         target_bytes)
                        nbest == [size |-> enc.size, q |-> enc.q,
                                  w |-> out.w, h |-> out.h]
                    IN IF ReachedTarget(enc.size, target_bytes)
                       THEN MkResult(FALSE, "ok", src, out, enc.q, enc.size,
                                     <<"OK">>)
                       ELSE PassLoop(content, adapter, scale, target_bytes,
                                     max_size_passes, max_output_pixels,
                                     k + 1, nbest)

\* process_image on a file of the given content.
process_image(content, adapter, scale, target_mb, max_size_passes, max_output_pixels) ==
    IF content.format # "JPEG"
    THEN MkResult(FALSE, "failed_invalid", NoDims, NoDims, None, None,
                  <<"Invalid or unsupported image.">>)
    ELSE IF content.truncated
    THEN MkResult(TRUE, "OSError", NoDims, NoDims, None, None, << >>)
    ELSE IF target_mb = NaN
    THEN MkResult(TRUE, "ValueError", NoDims, NoDims, None, None, << >>)
    ELSE PassLoop(content, adapter, scale, TargetBytes(target_mb),
                  max_size_passes, max_output_pixels, 1,
                  [size |-> None, q |-> None, w |-> None, h |-> None])

\* str(x or ""): nothing for None and for zero.
StrOrEmpty(x) == IF x = None \/ x = 0 THEN << >> ELSE <<ToString(x)>>

\* ProcessReport.as_tsv
as_tsv(source_name, output_name, r) ==
    Join(<<TAB>>,
         <<source_name, output_name, <<r.status>>,
           StrOrEmpty(r.src_w), StrOrEmpty(r.src_h),
           StrOrEmpty(r.out_w), StrOrEmpty(r.out_h),
           StrOrEmpty(r.quality), StrOrEmpty(r.size_mb), r.notes>>)

HeaderLine == <<"source_name", TAB, "output_name", TAB, "status", TAB, "src_w",
                TAB, "src_h", TAB, "out_w", TAB, "out_h", TAB, "quality", TAB,
                "size_mb", TAB, "notes">>

\* The report line of an input with an unsupported extension (app.py 148-150).
UnsupportedLine(original_name) ==
    original_name \o <<TAB, TAB, "failed_invalid", TAB, TAB, TAB, TAB, TAB,
                       TAB, TAB, "Unsupported file type.">>

\* ------------------------------------------------------------ environment

\* AppConfig.from_env defaults.
min_scale == 4
min_target_mb == 20
max_target_mb == 100
max_files == 200
max_output_pixels == 400000000

\* The deployments: UPSCALE_ADAPTER, whether the Topaz CLI path exists,
\* whether the FSRCNN model file is on disk when the adapter is constructed,
\* and whether the model can be found or fetched and then loaded.
Deployment(name, topaz_available, model_on_disk, model_ok) ==
    [upscale_adapter |-> name, topaz_available |-> topaz_available,
     model_on_disk |-> model_on_disk, model_ok |-> model_ok]

Configs ==
    {Deployment("pillow", FALSE, FALSE, TRUE),
     Deployment("ai", FALSE, FALSE, FALSE),
     Deployment("ai", FALSE, TRUE, FALSE),
     Deployment("topaz", TRUE, TRUE, TRUE),
     Deployment("topaz", FALSE, FALSE, TRUE)}

\* File contents: the image format found by PIL, whether the pixel data is
\* cut short (load fails with OSError), the source size, the encoded bytes
\* per hundred pixels (base at quality 70, slope per quality step, bump at
\* the one quality bump_q), the pass in which the process runs out of memory
\* (0: never), and whether the allocation that fails then is one of Pillow
\* or numpy ("python": MemoryError) or, under the AI adapter, one made
\* inside OpenCV ("opencv": cv2.error).
Img(w, h, base, slope, oom) ==
    [format |-> "JPEG", truncated |-> FALSE, w |-> w, h |-> h,
     base |-> base, slope |-> slope, bump_q |-> 0, bump |-> 0,
     oom_pass |-> oom, oom_in |-> "python"]

Garbage == [Img(0, 0, 0, 0, 0) EXCEPT !.format = "garbage"]
Truncated == [Img(1000, 1000, 135, 0, 0) EXCEPT !.truncated = TRUE]

\* The uploaded parts a submission is made of: file name and content.
Part(filename, content) == [filename |-> filename, content |-> content]

Parts ==
    {Part(<<"a", ".jpg">>, Img(1000, 1000, 135, 0, 0)),
     Part(<<"a", ".JPG">>, Img(100, 100, 100, 2, 0)),
     Part(<<"b", ".txt">>, Garbage),
     Part(<<"n", NL, "b", ".jpeg">>, Garbage),
     Part(<<"/", "b", ".jpg">>, Img(1000, 1000, 135, 0, 1)),
     Part(<<"b", ".jpeg">>, [Img(1000, 1000, 135, 0, 1) EXCEPT !.oom_in = "opencv"]),
     Part(<<"b", ".jpg">>, Truncated),
     Part(<< >>, Garbage)}

RECURSIVE SeqsUpTo(_, _)
SeqsUpTo(S, n) ==
    IF n = 0 THEN {<< >>}
    ELSE LET shorter == SeqsUpTo(S, n - 1)
         IN shorter \cup {Append(q, x) : q \in {r \in shorter : Len(r) = n - 1}, x \in S}

Submissions == SeqsUpTo(Parts, MaxFiles)
PollSubmissions == SeqsUpTo(Parts, MaxPollFiles)
Scales == {3, 4}
TargetsMb == {19, 20, 101, NaN}
JobIds == {"j1"}

\* ------------------------------------------------------------------ state

\* The attribute reads of GET /status/<job_id> after JobStore.get returned,
\* in the order JobState.to_dict and status make them (jobs.py lines 28-41,
\* app.py line 316): the number of reads, and the reads still to be made.
ReadOrder ==
    <<"progress", "status", "processed", "succeeded", "failed", "skipped",
      "warnings", "message", "current_item", "status_again", "zip_path">>

ReadSteps == 1..Len(ReadOrder)
Idle == 0
Answered == Len(ReadOrder) + 1

VARIABLES
    config,         \* the AppConfig of the process
    jobs,           \* JobStore._jobs: job_id -> JobState
    lock,           \* JobStore._lock: "free" or the thread holding it
    resp,           \* what the submission handler answered
    pc,             \* where the runner thread of the submission is
    th,             \* the locals of _run_job
    pending,        \* the kwargs JobStore.update has still to assign
    after,          \* where the runner continues when the update returns
    tmp_files,      \* the temporary input files on disk
    notifications,  \* the messages handed to _send_done_notification
    calls,          \* the inputs (by position) process_image was called for
    ppc,            \* where the status poller is: Idle, the number of its
                    \* next attribute read, or Answered
    pjob,           \* the job_id the poller asked for
    snap,           \* the payload the poller has read so far
    seen,           \* the values the job had between update calls while
                    \* the poller was reading
    form,           \* the request the submission handler was called with
    fetches,        \* the calls of urllib.request.urlretrieve: for each,
                    \* the number of inputs the runner had started on
    proc,           \* the frame of a process_image call followed step by step
    encoder,        \* the frame of an _encode_jpeg_target_bytes call followed
                    \* step by step
    callers,        \* the threads calling JobStore methods: thread -> frame
    naming          \* a used set shared by _unique_output_name calls, and
                    \* the calls made on it

pollvars == <<ppc, pjob, snap>>

\* The frames of the calls that are followed on their own.
aside == <<proc, encoder, callers, naming>>

vars == <<config, jobs, lock, resp, pc, th, pending, after, tmp_files,
          notifications, calls, ppc, pjob, snap, seen, form, fetches, proc,
          encoder, callers, naming>>

\* zip_path = None, current_item = "" and message = "" are the empty text.
NoText == << >>

\* JobState(job_id, created_at, status="queued", total)
NewJobState(total) ==
    [status |-> "queued", total |-> total, processed |-> 0, succeeded |-> 0,
     failed |-> 0, skipped |-> 0, warnings |-> 0, message |-> NoText,
     zip_path |-> NoText, current_item |-> NoText]

NoThread ==
    [job_id |-> "none", inputs |-> << >>, scale |-> 0, target_mb |-> 0,
     adapter |-> "none", idx |-> 0, succeeded |-> 0, failed |-> 0,
     skipped |-> 0, warnings |-> 0, report_lines |-> << >>,
     used_names |-> {}, output_name |-> << >>, zf |-> << >>,
     zip_open |-> FALSE]

\* No request has been received.
NoForm == [files |-> << >>, scale |-> 0, target_mb |-> 0]

\* No call is being followed.
NoCall == [pc |-> "none"]

Init ==
    /\ config \in Configs
    /\ jobs = << >>
    /\ lock = "free"
    /\ resp = "none"
    /\ pc = "none"
    /\ th = NoThread
    /\ pending = << >>
    /\ after = "none"
    /\ tmp_files = {}
    /\ notifications = << >>
    /\ calls = << >>
    /\ ppc = Idle
    /\ pjob = "none"
    /\ snap = << >>
    /\ seen = {}
    /\ form = NoForm
    /\ fetches = << >>
    /\ proc = NoCall
    /\ encoder = NoCall
    /\ callers = << >>
    /\ naming = NoCall

\* ------------------------------------------------------- submission handler

\* validate_settings: TRUE when it raises ValueError.
validate_settings(scale, target_mb, lo_scale, lo_mb, hi_mb) ==
    \/ Less(scale, lo_scale)
    \/ Less(target_mb, lo_mb)
    \/ Less(hi_mb, target_mb)

\* The loop of process over the uploaded parts (app.py lines 278-288): the
\* inputs handed to the runner, given those built so far and the names seen.
RECURSIVE SaveInputs(_, _, _)
SaveInputs(files, inputs, seen_inputs) ==
    IF files = << >> THEN inputs
    ELSE LET f == Head(files)
         IN IF f.filename = << >>
            THEN SaveInputs(Tail(files), inputs, seen_inputs)
            ELSE LET original_name == Basename(f.filename)
                     base == safe_name(original_name)
                     e == SplitExt(original_name)[2]
                     ext == IF e = << >> THEN <<".jpg">> ELSE e
                     un == _unique_output_name(base \o ext, seen_inputs)
                 IN SaveInputs(Tail(files),
                               Append(inputs, [path |-> un[1],
                                               original_name |-> original_name,
                                               content |-> f.content]),
                               un[2])

\* JobStore.create's job.total for the uploaded parts.
JobTotal(files) == Len(files)

\* POST /process
Process(files, scale, target_mb) ==
    /\ resp = "none"
    /\ lock = "free"
    /\ IF \/ files = << >>
          \/ files[1].filename = << >>
          \/ Len(files) > max_files
          \/ validate_settings(scale, target_mb, min_scale, min_target_mb,
                               max_target_mb)
       THEN /\ resp' = "redirect_index"
            /\ UNCHANGED <<jobs, pc, th, tmp_files>>
       ELSE \E job_id \in JobIds \ DOMAIN jobs :
              LET inputs == SaveInputs(files, << >>, {})
              IN /\ jobs' = jobs @@ (job_id :> NewJobState(JobTotal(files)))
                 /\ tmp_files' = {inputs[i].path : i \in 1..Len(inputs)}
                 /\ th' = [NoThread EXCEPT !.job_id = job_id,
                                           !.inputs = inputs,
                                           !.scale = scale,
                                           !.target_mb = target_mb]
                 /\ pc' = "start"
                 /\ resp' = "redirect_job"
    /\ form' = [files |-> files, scale |-> scale, target_mb |-> target_mb]
    /\ UNCHANGED <<config, lock, pending, after, notifications, calls,
                   pollvars, seen, fetches, aside>>

\* ------------------------------------------------------------- job registry


\* JobStore.update entered by the runner: the lock is taken and the kwargs
\* wait to be assigned one by one; the runner goes on at `next` afterwards.
BeginUpdate(kwargs, next) ==
    /\ lock = "free"
    /\ lock' = "runner"
    /\ pending' = kwargs
    /\ after' = next
    /\ pc' = "update"

\* One setattr(state, key, value) of JobStore.update (jobs.py lines 66-67);
\* after the last one the lock is released and update returns.
UpdateStep ==
    /\ pc = "update"
    /\ pending # << >>
    /\ jobs' = IF th.job_id \in DOMAIN jobs
               THEN [jobs EXCEPT ![th.job_id][Head(pending)[1]] = Head(pending)[2]]
               ELSE jobs
    /\ pending' = Tail(pending)
    /\ IF Tail(pending) = << >>
       THEN /\ lock' = "free"
            /\ pc' = after
            /\ after' = "none"
       ELSE UNCHANGED <<lock, pc, after>>
    /\ seen' = IF Tail(pending) = << >> /\ ppc \in ReadSteps /\ pjob = th.job_id
               THEN seen \cup {jobs'[pjob]}
               ELSE seen
    /\ UNCHANGED <<config, resp, th, tmp_files, notifications, calls, pollvars,
                   form, fetches,
                   aside>>

\* ------------------------------------------------------------ batch runner

\* Faulty variant of ItemKwargs: the update leaves out skipped=skipped.
ItemKwargs_NoSkipped(idx, succeeded, failed, skipped, warnings) ==
    <<<<"processed", idx>>, <<"succeeded", succeeded>>, <<"failed", failed>>,
      <<"warnings", warnings>>>>

\* Faulty variant of ItemKwargs: processed is set one too high.
ItemKwargs_OffByOne(idx, succeeded, failed, skipped, warnings) ==
    <<<<"processed", idx + 1>>, <<"succeeded", succeeded>>, <<"failed", failed>>,
      <<"skipped", skipped>>, <<"warnings", warnings>>>>

\* The kwargs of the per-item update (app.py lines 151-158 and 188-195,
\* the same list in both places).
ItemKwargs(idx, succeeded, failed, skipped, warnings) ==
    <<<<"processed", idx>>, <<"succeeded", succeeded>>, <<"failed", failed>>,
      <<"skipped", skipped>>, <<"warnings", warnings>>>>

\* Faulty variant of DoneKwargs: zip_path is named before status.
DoneKwargs_ZipFirst(summary, zip_path, warnings) ==
    <<<<"zip_path", zip_path>>, <<"status", "done">>, <<"current_item", NoText>>,
      <<"message", summary>>, <<"warnings", warnings>>>>

\* The kwargs of the update that ends a successful run (lines 200-207).
DoneKwargs(summary, zip_path, warnings) ==
    <<<<"status", "done">>, <<"current_item", NoText>>, <<"message", summary>>,
      <<"zip_path", zip_path>>, <<"warnings", warnings>>>>

\* The kwargs of the update in the exception handler (lines 215-220).
FailedKwargs ==
    <<<<"status", "failed">>, <<"current_item", NoText>>,
      <<"message", <<"Processing failed. See report for details.">>>>>>

ZipPath == <<"work_dir", "/", "upscaled_", "timestamp", ".zip">>

\* _run_job up to the first update: the adapter is built, the job looked up.
\* An exception of get_adapter is raised outside the try statement and ends
\* the thread.
RunStart ==
    /\ pc = "start"
    /\ LET adapter == get_adapter(config)
       IN IF adapter = "raise"
          THEN /\ pc' = "died"
               /\ UNCHANGED <<lock, pending, after, th>>
          ELSE IF th.job_id \notin DOMAIN jobs
          THEN /\ lock = "free"
               /\ pc' = "ended"
               /\ UNCHANGED <<lock, pending, after, th>>
          ELSE /\ BeginUpdate(<<<<"status", "processing">>,
                                <<"message", <<"Processing images...">>>>>>,
                              "loop")
               /\ th' = [th EXCEPT !.adapter = adapter,
                                   !.idx = 1,
                                   !.report_lines = <<HeaderLine>>,
                                   !.zip_open = TRUE]
    /\ fetches' = IF _ensure_model(config) = "urlretrieve"
                  THEN Append(fetches, th.idx)
                  ELSE fetches
    /\ UNCHANGED <<config, jobs, resp, tmp_files, notifications, calls,
                   pollvars, seen, form, aside>>

\* Faulty variant of Count: only the exact status "failed" counts as
\* failed, so the failed_*
\* statuses fall through to skipped.
Count_ExactFailed(t, status) ==
    IF status = "ok" THEN [t EXCEPT !.succeeded = @ + 1]
    ELSE IF status = "target_not_met" THEN [t EXCEPT !.warnings = @ + 1]
    ELSE IF status = "failed" THEN [t EXCEPT !.failed = @ + 1]
    ELSE [t EXCEPT !.skipped = @ + 1]

\* The counters after an item whose report has the given status (lines 179-186).
Count(t, status) ==
    IF status = "ok" THEN [t EXCEPT !.succeeded = @ + 1]
    ELSE IF status = "target_not_met" THEN [t EXCEPT !.warnings = @ + 1]
    ELSE IF status \in {"failed_invalid", "failed_processing"}
    THEN [t EXCEPT !.failed = @ + 1]
    ELSE [t EXCEPT !.skipped = @ + 1]

\* The counters after an input with an unsupported extension (line 147).
CountUnsupported(t) == [t EXCEPT !.skipped = @ + 1]

\* The head of one loop iteration (lines 144-162): an input with an
\* unsupported extension is reported and counted; any other gets its output
\* name and is announced as the current item.
RunItem ==
    /\ pc = "loop"
    /\ th.idx <= Len(th.inputs)
    /\ LET idx == th.idx
           original_name == th.inputs[idx].original_name
           ext == Lower(SplitExt(original_name)[2])
       IN IF ext \notin ALLOWED_EXTS
          THEN LET t == [CountUnsupported(th) EXCEPT
                           !.report_lines = Append(@, UnsupportedLine(original_name)),
                           !.idx = idx + 1]
               IN /\ th' = t
                  /\ BeginUpdate(ItemKwargs(idx, t.succeeded, t.failed,
                                            t.skipped, t.warnings), "loop")
          ELSE LET un == _unique_output_name(
                            safe_name(original_name) \o <<"_upscaled", ".jpg">>,
                            th.used_names)
               IN /\ th' = [th EXCEPT !.used_names = un[2],
                                       !.output_name = un[1]]
                  /\ BeginUpdate(
                       <<<<"current_item", original_name>>,
                         <<"message", <<"Processing ", ToString(idx), "/",
                                        ToString(Len(th.inputs)), ": ">>
                                      \o original_name>>>>,
                       "process")
    /\ UNCHANGED <<config, jobs, resp, tmp_files, notifications, calls,
                   pollvars, seen, form, fetches,
                   aside>>

\* The summary message of a finished run (line 199).
Summary(t) ==
    <<"Processing complete. ", ToString(t.succeeded), " met target, ",
      ToString(t.warnings), " upscaled but below target, ",
      ToString(t.failed), " hard failures.">>

\* The rest of the iteration (lines 163-195): the item processor runs, its
\* bytes go into the archive, its report line is appended, its outcome is
\* counted and the registry updated.  An exception of process_image leaves
\* the with block and is handled at line 213.
RunProcess ==
    /\ pc = "process"
    /\ LET idx == th.idx
           item == th.inputs[idx]
           result == process_image(item.content, th.adapter, th.scale,
                                   th.target_mb, MaxSizePasses,
                                   max_output_pixels)
       IN /\ calls' = Append(calls, idx)
          /\ IF result.raised
             THEN /\ th' = [th EXCEPT !.zip_open = FALSE]
                  /\ BeginUpdate(FailedKwargs, "notify_failed")
             ELSE LET zf == IF result.output_bytes # None /\ result.output_bytes # 0
                            THEN Append(th.zf, [name |-> th.output_name,
                                                data |-> result.output_bytes])
                            ELSE th.zf
                      t == [Count(th, result.status) EXCEPT
                              !.zf = zf,
                              !.report_lines =
                                  Append(@, as_tsv(item.original_name,
                                                   th.output_name, result)),
                              !.idx = idx + 1]
                  IN /\ th' = t
                     /\ BeginUpdate(ItemKwargs(idx, t.succeeded, t.failed,
                                               t.skipped, t.warnings), "loop")
    /\ UNCHANGED <<config, jobs, resp, tmp_files, notifications, pollvars, seen,
                   form, fetches,
                   aside>>

\* After the last input (lines 197-207): the report is written into the
\* archive and the archive closed; then the job is set done.  Writing the
\* archive can fail (io_ok = FALSE), which the handler at line 213 catches.
RunFinish(io_ok) ==
    /\ pc = "loop"
    /\ th.idx > Len(th.inputs)
    /\ IF io_ok
       THEN LET t == [th EXCEPT
                        !.zf = Append(@, [name |-> <<"_report.tsv">>,
                                          data |-> Join(<<NL>>, th.report_lines)]),
                        !.zip_open = FALSE]
            IN /\ th' = t
               /\ BeginUpdate(DoneKwargs(Summary(t), ZipPath, t.warnings),
                              "notify_done")
       ELSE /\ th' = [th EXCEPT !.zip_open = FALSE]
            /\ BeginUpdate(FailedKwargs, "notify_failed")
    /\ UNCHANGED <<config, jobs, resp, tmp_files, notifications, calls,
                   pollvars, seen, form, fetches,
                   aside>>

\* Faulty variant of RunNotify: the notification of a finished run raises
\* inside the try
\* statement, so the exception handler runs after the job was set done.
RunNotify_Raises ==
    /\ pc \in {"notify_done", "notify_failed"}
    /\ IF pc = "notify_done"
       THEN /\ BeginUpdate(FailedKwargs, "notify_failed")
            /\ UNCHANGED <<notifications, tmp_files>>
       ELSE /\ notifications' = Append(notifications, "failed")
            /\ tmp_files' = tmp_files \ {th.inputs[i].path : i \in 1..Len(th.inputs)}
            /\ pc' = "ended"
            /\ UNCHANGED <<lock, pending, after>>
    /\ UNCHANGED <<config, jobs, resp, th, calls, pollvars, seen, form,
                   fetches, aside>>

\* _send_done_notification at line 212 or 221, then the finally clause
\* (lines 222-227): os.remove on every input path.  A removal that fails with
\* OSError is passed over; the model takes every removal to succeed.
RunNotify ==
    /\ pc \in {"notify_done", "notify_failed"}
    /\ notifications' = Append(notifications,
                               IF pc = "notify_done" THEN "complete" ELSE "failed")
    /\ tmp_files' = tmp_files \ {th.inputs[i].path : i \in 1..Len(th.inputs)}
    /\ pc' = "ended"
    /\ UNCHANGED <<config, jobs, lock, resp, th, pending, after, calls,
                   pollvars, seen, form, fetches,
                   aside>>

\* ------------------------------------------------------------ status poller

\* int((processed / total) * 100) if total else 0
Progress(processed, total) ==
    IF total = 0 THEN 0 ELSE (processed * 100) \div total

\* GET /status/<job_id> up to the return of JobStore.get, which takes and
\* releases the lock and hands out the JobState object itself.
PollGet(job_id) ==
    /\ ppc \in {Idle, Answered}
    /\ lock = "free"
    /\ pjob' = job_id
    /\ IF job_id \in DOMAIN jobs
       THEN /\ ppc' = 1
            /\ snap' = [total |-> jobs[job_id].total]
            /\ seen' = {jobs[job_id]}
       ELSE /\ ppc' = Answered
            /\ snap' = [error |-> "not_found"]
            /\ seen' = {}
    /\ UNCHANGED <<config, jobs, lock, resp, pc, th, pending, after, tmp_files,
                   notifications, calls, form, fetches,
                   aside>>

\* What one attribute read adds to the payload.  No lock is held.
ReadField(job, step, payload) ==
    LET f == ReadOrder[step]
    IN IF f = "progress"
       THEN payload @@ [progress |-> Progress(job.processed, job.total)]
       ELSE IF f = "status_again"
       THEN payload @@ [status_again |-> job.status]
       ELSE IF f = "zip_path"
       THEN payload @@ [download_url |->
                           payload.status_again = "done" /\ job.zip_path # NoText]
       ELSE payload @@ (f :> job[f])

\* The next attribute read of the poller; after the last one the payload
\* is returned.
PollRead ==
    /\ ppc \in ReadSteps
    /\ snap' = ReadField(jobs[pjob], ppc, snap)
    /\ ppc' = ppc + 1
    /\ UNCHANGED <<config, jobs, lock, resp, pc, th, pending, after, tmp_files,
                   notifications, calls, pjob, seen, form, fetches,
                   aside>>

\* One submission arrives, while none has been answered yet.
Submit(submissions) ==
    /\ resp = "none"
    /\ \E files \in submissions, scale \in Scales, target_mb \in TargetsMb :
          Process(files, scale, target_mb)

Run ==
    \/ RunStart
    \/ UpdateStep
    \/ RunItem
    \/ RunProcess
    \/ \E io_ok \in BOOLEAN : RunFinish(io_ok)
    \/ RunNotify

Next ==
    \/ Submit(Submissions)
    \/ Run

Spec == Init /\ [][Next]_vars

\* The default deployment (UPSCALE_ADAPTER unset), with a client polling
\* GET /status/<job_id> while the batch runs.
DefaultConfig == Deployment("pillow", FALSE, FALSE, TRUE)

InitPoll == Init /\ config = DefaultConfig

NextPoll ==
    \/ Submit(PollSubmissions)
    \/ Run
    \/ \E job_id \in JobIds : PollGet(job_id)
    \/ PollRead

SpecPoll == InitPoll /\ [][NextPoll]_vars

\* ------------------------------------------- the item processor, step by step

\* The default deployment with nothing submitted and no call made yet.
InitDefault == Init /\ config = DefaultConfig

\* The variables of the handler, the registry, the runner and the poller.
main == <<config, jobs, lock, resp, pc, th, pending, after, tmp_files,
          notifications, calls, ppc, pjob, snap, seen, form, fetches>>

\* The arguments process_image is called with when it is followed on its
\* own: file contents, adapter, scale, target_mb and max_output_pixels.
ItemContents ==
    {Garbage, Truncated,
     Img(1000, 1000, 135, 0, 0),
     Img(1000, 1000, 120, 0, 0),
     Img(100, 100, 100, 2, 0),
     Img(3, 3, 100, 2, 0),
     Img(1000, 1000, 135, 0, 1),
     Img(1000, 1000, 120, 0, 2),
     [Img(1000, 1000, 120, 0, 2) EXCEPT !.oom_in = "opencv"]}

ItemAdapters == {"pillow", "ai", "topaz"}
ItemScales == {1, 4, NaN}
ItemTargetsMb == {1, 20, NaN}
ItemPixelLimits == {100, 200000, max_output_pixels}

\* One entry of the record of the calls process_image makes: adapter.upscale
\* in pass k with the size of the image returned (None when it raised), or
\* _encode_jpeg_target_bytes in pass k with the size in bytes and the quality
\* of the encoding returned.
Called(op, k, w, h, size, q) ==
    [op |-> op, k |-> k, w |-> w, h |-> h, size |-> size, q |-> q]

\* process_image is entered.
ProcCall(content, adapter, scale, target_mb, max_size_passes, pixel_limit) ==
    /\ proc' = [pc |-> "load", content |-> content, adapter |-> adapter,
                scale |-> scale, target_mb |-> target_mb,
                max_size_passes |-> max_size_passes,
                max_output_pixels |-> pixel_limit,
                src |-> NoDims, k |-> 0, out |-> NoDims,
                best |-> [size |-> None, q |-> None, w |-> None, h |-> None],
                notes |-> << >>, trace |-> << >>,
                result |-> MkResult(FALSE, "none", NoDims, NoDims, None, None, << >>)]
    /\ UNCHANGED <<main, encoder, callers, naming>>

\* The end of a process_image call: it returns r, or r.raised and the
\* exception leaves it.
ProcEnd(r) ==
    [proc EXCEPT !.pc = IF r.raised THEN "raised" ELSE "returned",
                 !.result = r]

\* _load_image in its try statement (lines 132-150).
ProcLoad ==
    /\ proc.pc = "load"
    /\ proc' = IF proc.content.format # "JPEG"
               THEN ProcEnd(MkResult(FALSE, "failed_invalid", NoDims, NoDims,
                                     None, None,
                                     <<"Invalid or unsupported image.">>))
               ELSE [proc EXCEPT !.pc = "prepare"]
    /\ UNCHANGED <<main, encoder, callers, naming>>

\* Lines 152-171: the pixel data is decoded by convert("RGB"), then the
\* target byte count is computed and the loop variables are set.
ProcPrepare ==
    /\ proc.pc = "prepare"
    /\ proc' = IF proc.content.truncated
               THEN ProcEnd(MkResult(TRUE, "OSError", NoDims, NoDims, None,
                                     None, << >>))
               ELSE IF proc.target_mb = NaN
               THEN ProcEnd(MkResult(TRUE, "ValueError", NoDims, NoDims, None,
                                     None, << >>))
               ELSE [proc EXCEPT !.pc = "upscale", !.k = 1,
                                 !.src = [w |-> proc.content.w,
                                          h |-> proc.content.h]]
    /\ UNCHANGED <<main, encoder, callers, naming>>

\* Lines 174-179: the for statement starts pass k, or is exhausted; in a
\* pass adapter.upscale is called and the pixel count of its image checked.
ProcUpscale ==
    /\ proc.pc = "upscale"
    /\ LET k == proc.k
           raised(status) ==
               [ProcEnd(MkResult(TRUE, status, proc.src, NoDims, None, None, << >>))
                  EXCEPT !.trace = Append(@, Called("upscale", k, None, None,
                                                    None, None))]
           out == upscale(proc.content.w, proc.content.h, proc.scale, k)
       IN proc' =
            IF k > proc.max_size_passes THEN [proc EXCEPT !.pc = "after"]
            ELSE IF proc.adapter = "topaz" THEN raised("RuntimeError")
            ELSE IF proc.scale = NaN THEN raised("ValueError")
            ELSE IF /\ proc.content.oom_pass = k
                    /\ proc.adapter = "ai"
                    /\ proc.content.oom_in = "opencv"
            THEN raised("cv2.error")
            ELSE IF proc.content.oom_pass = k
            THEN [ProcEnd(MkResult(FALSE, "failed_processing", proc.src, NoDims,
                                   None, None,
                                   <<"Insufficient memory to process this file.">>))
                    EXCEPT !.trace = Append(@, Called("upscale", k, None, None,
                                                      None, None))]
            ELSE [proc EXCEPT
                    !.trace = Append(@, Called("upscale", k, out.w, out.h,
                                               None, None)),
                    !.out = out,
                    !.notes = IF out.w * out.h > proc.max_output_pixels
                              THEN Append(@, <<"Output exceeded max pixel limit.">>)
                              ELSE @,
                    !.pc = IF out.w * out.h > proc.max_output_pixels
                           THEN "after" ELSE "encode"]
    /\ UNCHANGED <<main, encoder, callers, naming>>

\* Lines 181-212: the image of the pass is encoded and recorded as the best
\* so far; if it reaches the target it is returned, otherwise the scale grows.
ProcEncode ==
    /\ proc.pc = "encode"
    /\ LET e == _encode_jpeg_target_bytes(proc.content, proc.out.w * proc.out.h,
                                          TargetBytes(proc.target_mb))
           p == [proc EXCEPT
                   !.trace = Append(@, Called("encode", proc.k, proc.out.w,
                                              proc.out.h, e.size, e.q)),
                   !.best = [size |-> e.size, q |-> e.q,
                             w |-> proc.out.w, h |-> proc.out.h]]
       IN proc' =
            IF ReachedTarget(e.size, TargetBytes(proc.target_mb))
            THEN [p EXCEPT !.pc = "returned",
                           !.result = MkResult(FALSE, "ok", proc.src, proc.out,
                                               e.q, e.size, <<"OK">>)]
            ELSE [p EXCEPT !.pc = "upscale", !.k = @ + 1]
    /\ UNCHANGED <<main, encoder, callers, naming>>

\* Lines 230-263: what is returned when the loop ended without a return.
ProcAfter ==
    /\ proc.pc = "after"
    /\ proc' = ProcEnd(AfterLoop(proc.src, proc.best, proc.notes))
    /\ UNCHANGED <<main, encoder, callers, naming>>

\* One call of process_image, for any arguments.
CallProcessImage ==
    /\ proc.pc = "none"
    /\ \E content \in ItemContents, adapter \in ItemAdapters,
          scale \in ItemScales, target_mb \in ItemTargetsMb,
          max_size_passes \in 1..MaxSizePasses,
          pixel_limit \in ItemPixelLimits :
          ProcCall(content, adapter, scale, target_mb, max_size_passes,
                   pixel_limit)

NextItem ==
    \/ CallProcessImage
    \/ ProcLoad
    \/ ProcPrepare
    \/ ProcUpscale
    \/ ProcEncode
    \/ ProcAfter

SpecItem == InitDefault /\ [][NextItem]_vars

\* ------------------------------------------------- the encoder, step by step

\* The images and targets _encode_jpeg_target_bytes is called with when it
\* is followed on its own: images of a hundred pixels, whose encoded size at
\* quality q is base + (q - 70) * slope bytes, off that line by bump at the
\* one quality bump_q (0: at none).
EncBases == {300, 700, 1000, 1130, 1400}
EncSlopes == {0, 5, 20, 300}
EncBumps == {<<0, 0>>, <<75, -15>>, <<84, 200>>, <<91, -200>>, <<96, 400>>}
EncPixels == 100
EncTargets == {1000, 1500}

EncImages ==
    {[Img(10, 10, base, slope, 0) EXCEPT !.bump_q = b[1], !.bump = b[2]] :
        base \in EncBases, slope \in EncSlopes, b \in EncBumps}

\* Faulty variant of EncodeCall: the search starts from the whole quality
\* range of the JPEG writer, 1..100.
EncodeCall_WholeRange(content, target_bytes) ==
    /\ encoder' = [pc |-> "loop", content |-> content,
                   target_bytes |-> target_bytes, low |-> 1, high |-> 100,
                   best |-> [size |-> 0, q |-> 0, gap |-> -1],
                   probes |-> << >>, ret |-> [size |-> 0, q |-> 0]]
    /\ UNCHANGED <<main, proc, callers, naming>>

\* _encode_jpeg_target_bytes is entered (lines 73-76).
EncodeCall(content, target_bytes) ==
    /\ encoder' = [pc |-> "loop", content |-> content,
                   target_bytes |-> target_bytes, low |-> 70, high |-> 98,
                   best |-> [size |-> 0, q |-> 0, gap |-> -1],
                   probes |-> << >>, ret |-> [size |-> 0, q |-> 0]]
    /\ UNCHANGED <<main, proc, callers, naming>>

\* One iteration of the while loop (lines 78-106): the image is encoded at
\* the middle quality, the best encoding so far is kept, and the range is
\* narrowed or the encoding returned.
EncodeProbe ==
    /\ encoder.pc = "loop"
    /\ encoder.low <= encoder.high
    /\ LET q == (encoder.low + encoder.high) \div 2
           size == EncodedSize(encoder.content, EncPixels, q)
           gap == Abs(size - encoder.target_bytes)
           e == [encoder EXCEPT
                   !.probes = Append(@, [q |-> q, size |-> size]),
                   !.best = IF @.gap = -1 \/ gap < @.gap
                            THEN [size |-> size, q |-> q, gap |-> gap]
                            ELSE @]
       IN encoder' =
            IF BelowBand(size, encoder.target_bytes)
            THEN [e EXCEPT !.low = q + 1]
            ELSE IF AboveBand(size, encoder.target_bytes)
            THEN [e EXCEPT !.high = q - 1]
            ELSE [e EXCEPT !.pc = "returned",
                           !.ret = [size |-> size, q |-> q]]
    /\ UNCHANGED <<main, proc, callers, naming>>

\* Faulty variant of EncodeExhausted: the last probe is returned, not the
\* best one.
EncodeExhausted_LastProbe ==
    /\ encoder.pc = "loop"
    /\ encoder.low > encoder.high
    /\ encoder' = [encoder EXCEPT
                     !.pc = "returned",
                     !.ret = [size |-> encoder.probes[Len(encoder.probes)].size,
                              q |-> encoder.probes[Len(encoder.probes)].q]]
    /\ UNCHANGED <<main, proc, callers, naming>>

\* The range is exhausted (lines 108-110): the best encoding is returned.
EncodeExhausted ==
    /\ encoder.pc = "loop"
    /\ encoder.low > encoder.high
    /\ encoder' = [encoder EXCEPT
                     !.pc = "returned",
                     !.ret = [size |-> encoder.best.size, q |-> encoder.best.q]]
    /\ UNCHANGED <<main, proc, callers, naming>>

\* One call of _encode_jpeg_target_bytes, for any image and target.
CallEncode ==
    /\ encoder.pc = "none"
    /\ \E content \in EncImages, target_bytes \in EncTargets :
          EncodeCall(content, target_bytes)

NextEncode ==
    \/ CallEncode
    \/ EncodeProbe
    \/ EncodeExhausted

SpecEncode == InitDefault /\ [][NextEncode]_vars

\* The encoder under the scheduling of its thread: a call that can take a
\* step takes it (the loop body and the return are straight-line code).
SpecEncodeFair ==
    /\ InitDefault
    /\ [][NextEncode]_vars
    /\ WF_vars(EncodeProbe)
    /\ WF_vars(EncodeExhausted)

\* ------------------------------------------------ output names, call by call

\* The names _unique_output_name is called with when it is followed on its
\* own, and the names that may be in the used set before the first call.
NameCandidates ==
    {<<"a", ".jpg">>, <<"a", "_", "2", ".jpg">>, <<"b", ".jpg">>, <<"a">>}

NamesUsedBefore ==
    SUBSET {<<"a", ".jpg">>, <<"a", "_", "2", ".jpg">>, <<"a", "_", "3", ".jpg">>}

\* A used set comes into being (app.py lines 139 and 278; the runner and the
\* handler start from the empty set).
NamingStart ==
    /\ naming.pc = "none"
    /\ \E used \in NamesUsedBefore :
          naming' = [pc |-> "open", used |-> used, returned |-> << >>,
                     last |-> [candidate |-> << >>, before |-> {}, name |-> << >>]]
    /\ UNCHANGED <<main, proc, encoder, callers>>

\* One call _unique_output_name(base, used) on the shared used set.
AssignName(base) ==
    /\ naming.pc = "open"
    /\ Len(naming.returned) < MaxNameCalls
    /\ LET un == _unique_output_name(base, naming.used)
       IN naming' = [naming EXCEPT
                       !.used = un[2],
                       !.returned = Append(@, un[1]),
                       !.last = [candidate |-> base, before |-> naming.used,
                                 name |-> un[1]]]
    /\ UNCHANGED <<main, proc, encoder, callers>>

NextNames ==
    \/ NamingStart
    \/ \E base \in NameCandidates : AssignName(base)

SpecNames == InitDefault /\ [][NextNames]_vars

\* ------------------------------------------- the job registry, thread by thread

\* The threads that call JobStore methods concurrently, the identifiers
\* uuid4 can give, and the arguments of the calls.
StoreThreads == {"t1", "t2"}
StoreIds == {"j1", "j2"}
StoreTotals == {1, 2}

StoreKwargs ==
    <<<<<<"status", "processing">>, <<"message", <<"Processing images...">>>>>>,
      <<<<"processed", 1>>, <<"succeeded", 1>>, <<"failed", 0>>>>>>

\* The variables JobStore calls leave alone.
beside == <<config, resp, pc, th, pending, after, tmp_files, notifications,
            calls, ppc, pjob, snap, seen, form, fetches, proc, encoder,
            naming>>

\* Thread t is not inside a JobStore call and may make another one.
MayCall(t) ==
    IF t \in DOMAIN callers
    THEN callers[t].pc = "returned" /\ callers[t].n < MaxStoreCalls
    ELSE TRUE

\* The frame of the call thread t starts: op with its arguments.  pre and
\* post are the registry as it is when t gets and when t gives up the lock.
NewCall(t, op, job_id, total, kwargs) ==
    [op |-> op, pc |-> "acquire", job_id |-> job_id, total |-> total,
     kwargs |-> kwargs, todo |-> kwargs, found |-> FALSE,
     pre |-> << >>, post |-> << >>,
     n |-> IF t \in DOMAIN callers THEN callers[t].n + 1 ELSE 1]

\* The identifiers no job and no create call in progress has.
FreshIds ==
    {id \in StoreIds :
        /\ id \notin DOMAIN jobs
        /\ \A t \in DOMAIN callers :
              ~(callers[t].op = "create" /\ callers[t].pc # "returned"
                  /\ callers[t].job_id = id)}

\* create(total) up to the with statement (jobs.py lines 51-52): the
\* identifier is drawn and the JobState built.
StoreCreate(t) ==
    /\ MayCall(t)
    /\ \E job_id \in FreshIds, total \in StoreTotals :
          callers' = (t :> NewCall(t, "create", job_id, total, << >>)) @@ callers
    /\ UNCHANGED <<jobs, lock, beside>>

\* get(job_id) is called.
StoreGet(t) ==
    /\ MayCall(t)
    /\ \E job_id \in StoreIds :
          callers' = (t :> NewCall(t, "get", job_id, 0, << >>)) @@ callers
    /\ UNCHANGED <<jobs, lock, beside>>

\* update(job_id, **kwargs) is called.
StoreUpdate(t) ==
    /\ MayCall(t)
    /\ \E job_id \in StoreIds, n \in 1..Len(StoreKwargs) :
          callers' = (t :> NewCall(t, "update", job_id, 0, StoreKwargs[n])) @@ callers
    /\ UNCHANGED <<jobs, lock, beside>>

\* Faulty variant of StoreAcquire: the with statement does not wait for
\* the lock.
StoreAcquire_NoWait(t) ==
    /\ t \in DOMAIN callers
    /\ callers[t].pc = "acquire"
    /\ lock' = t
    /\ callers' = [callers EXCEPT ![t].pc = "body", ![t].pre = jobs]
    /\ UNCHANGED <<jobs, beside>>

\* with self._lock: the thread waits until the lock is free and takes it.
StoreAcquire(t) ==
    /\ t \in DOMAIN callers
    /\ callers[t].pc = "acquire"
    /\ lock = "free"
    /\ lock' = t
    /\ callers' = [callers EXCEPT ![t].pc = "body", ![t].pre = jobs]
    /\ UNCHANGED <<jobs, beside>>

\* The first statement under the lock: create stores the new JobState
\* (line 54); get and update look the job up (lines 59 and 63-65).
StoreBody(t) ==
    /\ t \in DOMAIN callers
    /\ callers[t].pc = "body"
    /\ LET c == callers[t]
       IN IF c.op = "create"
          THEN /\ jobs' = (c.job_id :> NewJobState(c.total)) @@ jobs
               /\ callers' = [callers EXCEPT ![t].pc = "release"]
          ELSE /\ jobs' = jobs
               /\ callers' =
                    [callers EXCEPT
                       ![t].found = c.job_id \in DOMAIN jobs,
                       ![t].pc = IF c.op = "update" /\ c.job_id \in DOMAIN jobs
                                    /\ c.todo # << >>
                                 THEN "setattr" ELSE "release"]
    /\ UNCHANGED <<lock, beside>>

\* One setattr(state, key, value) of update (lines 66-67).
StoreSetattr(t) ==
    /\ t \in DOMAIN callers
    /\ callers[t].pc = "setattr"
    /\ LET c == callers[t]
       IN /\ jobs' = [jobs EXCEPT ![c.job_id][Head(c.todo)[1]] = Head(c.todo)[2]]
          /\ callers' = [callers EXCEPT
                           ![t].todo = Tail(c.todo),
                           ![t].pc = IF Tail(c.todo) = << >>
                                     THEN "release" ELSE "setattr"]
    /\ UNCHANGED <<lock, beside>>

\* The with statement is left: the lock is given up and the call returns.
StoreRelease(t) ==
    /\ t \in DOMAIN callers
    /\ callers[t].pc = "release"
    /\ lock' = "free"
    /\ callers' = [callers EXCEPT ![t].pc = "returned", ![t].post = jobs]
    /\ UNCHANGED <<jobs, beside>>

NextStore ==
    \E t \in StoreThreads :
        \/ StoreCreate(t)
        \/ StoreGet(t)
        \/ StoreUpdate(t)
        \/ StoreAcquire(t)
        \/ StoreBody(t)
        \/ StoreSetattr(t)
        \/ StoreRelease(t)

SpecStore == InitDefault /\ [][NextStore]_vars

\* ----------------------------------------------------------------- claims

Terminal == {"done", "failed"}

\* The job of the submission has the given status.
JobStatusIs(status) ==
    th.job_id \in DOMAIN jobs /\ jobs[th.job_id].status = status

\* C1: whenever the registry is between two update calls (the lock is free,
\* so after each per-item update and in the terminal state), every job has
\* succeeded + failed + skipped + warnings = processed.
C1_CountersSumToProcessed ==
    \A id \in DOMAIN jobs :
        lock = "free" =>
            jobs[id].succeeded + jobs[id].failed + jobs[id].skipped
                + jobs[id].warnings = jobs[id].processed

\* A finished batch of three inputs with three different outcomes counted.
C1_Witness ==
    \E id \in DOMAIN jobs :
        /\ lock = "free"
        /\ pc = "ended"
        /\ jobs[id].processed = 3
        /\ jobs[id].skipped = 1
        /\ jobs[id].warnings = 1
        /\ jobs[id].failed = 1

\* C2: in every state, between and inside update calls, from the creation of
\* a job to its terminal state, processed <= total.
C2_ProcessedAtMostTotal ==
    \A id \in DOMAIN jobs : jobs[id].processed <= jobs[id].total

\* The last per-item update of a batch of three has been made.
C2_Witness ==
    \E id \in DOMAIN jobs :
        /\ jobs[id].status = "processing"
        /\ jobs[id].total = 3
        /\ jobs[id].processed = 3

\* C3: whenever the status of a job is done or failed, processed = total.
C3_TerminalProcessedIsTotal ==
    \A id \in DOMAIN jobs :
        jobs[id].status \in Terminal => jobs[id].processed = jobs[id].total

\* The steps a job status may take.
StatusSteps ==
    {<<"queued", "processing">>, <<"processing", "done">>,
     <<"processing", "failed">>}

\* C4: every step leaves the status of a job as it is or moves it along
\* queued -> processing -> {done, failed}; a job is never removed, and a
\* status done or failed never changes.
C4_StatusMovesForward ==
    [][\A id \in DOMAIN jobs :
          /\ id \in DOMAIN jobs'
          /\ \/ jobs'[id].status = jobs[id].status
             \/ <<jobs[id].status, jobs'[id].status>> \in StatusSteps]_vars

\* A run that went queued -> processing -> done and has ended, notification
\* and cleanup included.
C4_Witness ==
    /\ pc = "ended"
    /\ JobStatusIs("done")
    /\ notifications = <<"complete">>

\* The runner thread is over: _run_job returned, or an exception ended it.
RunOver == pc \in {"ended", "died"}

\* C5: no run of the batch runner is over while its job is still queued or
\* processing; when the thread ends, the job is done or failed.
C5_RunEndsTerminal ==
    RunOver => JobStatusIs("done") \/ JobStatusIs("failed")

\* C6: when a run is over, however it ended, none of the temporary input
\* files given to it is left: os.remove was applied to every one of them.
C6_TempFilesRemoved ==
    RunOver => tmp_files = {}

\* What the payload of GET /status would be if every attribute were read
\* while the job had the value s.
PayloadOf(s) ==
    [total |-> s.total, progress |-> Progress(s.processed, s.total),
     status |-> s.status, processed |-> s.processed,
     succeeded |-> s.succeeded, failed |-> s.failed, skipped |-> s.skipped,
     warnings |-> s.warnings, message |-> s.message,
     current_item |-> s.current_item, status_again |-> s.status,
     download_url |-> (s.status = "done" /\ s.zip_path # NoText)]

\* C7: a payload the poller has finished reading equals the payload of one
\* of the values the job had between update calls during the read: of the
\* value before or of the value after each update, never a mixture.
C7_NoTornSnapshot ==
    (ppc = Answered /\ "error" \notin DOMAIN snap) =>
        \E s \in seen : snap = PayloadOf(s)

\* C8: zip_path is set only while the status is done, in every state; and a
\* run that went through the exception handler ends with status failed and
\* no zip_path.
C8_ZipPathOnlyWhenDone ==
    /\ \A id \in DOMAIN jobs :
          jobs[id].zip_path # NoText => jobs[id].status = "done"
    /\ (pc = "ended" /\ notifications = <<"failed">>) =>
          /\ JobStatusIs("failed")
          /\ jobs[th.job_id].zip_path = NoText

\* A run that failed after image entries had been written into its archive.
C8_Witness ==
    /\ pc = "ended"
    /\ JobStatusIs("failed")
    /\ th.zf # << >>

\* The extension of an input is one the runner hands to the item processor.
Supported(input) ==
    Lower(SplitExt(input.original_name)[2]) \in {<<".jpg">>, <<".jpeg">>}

\* The counter the claim assigns to input i of the run: skipped for an
\* unsupported extension, otherwise by the status the item processor gives.
CounterFor(i) ==
    IF ~Supported(th.inputs[i]) THEN "skipped"
    ELSE LET r == process_image(th.inputs[i].content, th.adapter, th.scale,
                                th.target_mb, MaxSizePasses, max_output_pixels)
         IN CASE r.raised -> "none"
              [] r.status = "ok" -> "succeeded"
              [] r.status = "target_not_met" -> "warnings"
              [] r.status \in {"failed_invalid", "failed_processing"} -> "failed"
              [] OTHER -> "none"

\* How many of the first k inputs the claim assigns to counter c.
Tally(k, c) == Cardinality({i \in 1..k : CounterFor(i) = c})

\* C9: between update calls, with processed = k, each outcome counter of the
\* job is the number of inputs among the first k that the claim assigns to
\* it, so input k raised processed by one and exactly its own counter by
\* one; the item processor was called once, in order, for each supported
\* input reached and for no unsupported one; and a run over one unsupported,
\* one target_not_met and one ok input that ends done ends with total 3,
\* processed 3, succeeded 1, warnings 1, skipped 1, failed 0.
C9_OneCounterPerInput ==
    (lock = "free" /\ th.job_id \in DOMAIN jobs /\ th.adapter # "none") =>
        LET j == jobs[th.job_id]
            k == j.processed
        IN /\ k <= Len(th.inputs)
           /\ j.succeeded = Tally(k, "succeeded")
           /\ j.warnings = Tally(k, "warnings")
           /\ j.failed = Tally(k, "failed")
           /\ j.skipped = Tally(k, "skipped")
           /\ \A n \in 1..Len(calls) :
                 /\ Supported(th.inputs[calls[n]])
                 /\ \A m \in 1..(n - 1) : calls[m] < calls[n]
           /\ \A i \in 1..k : Supported(th.inputs[i]) =>
                 \E n \in 1..Len(calls) : calls[n] = i
           /\ ( /\ j.status = "done"
                /\ j.total = 3
                /\ Len(th.inputs) = 3
                /\ {CounterFor(i) : i \in 1..3} = {"skipped", "warnings", "succeeded"} )
              => /\ j.processed = 3
                 /\ j.succeeded = 1 /\ j.warnings = 1
                 /\ j.skipped = 1 /\ j.failed = 0

\* The run of the example has ended: an ok input first, an unsupported one
\* and one that never reaches the target after it.
C9_Witness ==
    /\ pc = "ended"
    /\ JobStatusIs("done")
    /\ Len(th.inputs) = 3
    /\ CounterFor(1) = "succeeded"
    /\ CounterFor(2) = "skipped"
    /\ CounterFor(3) = "warnings"
    /\ calls = <<1, 3>>

\* The text written as the _report.tsv entry of the archive.
ReportText ==
    LET at == CHOOSE n \in 1..Len(th.zf) : th.zf[n].name = <<"_report.tsv">>
    IN th.zf[at].data

\* C10: when a job is done, the lines of its _report.tsv are the header
\* line and then exactly one line for each input, in submission order, each
\* beginning with the name of its input and a tab.
C10_ReportOneLinePerInput ==
    JobStatusIs("done") =>
        LET lines == SplitLines(ReportText)
        IN /\ Len(lines) = Len(th.inputs) + 1
           /\ lines[1] = HeaderLine
           /\ \A i \in 1..Len(th.inputs) :
                 LET name == th.inputs[i].original_name
                 IN /\ Len(lines[i + 1]) > Len(name)
                    /\ SubSeq(lines[i + 1], 1, Len(name) + 1) = Append(name, TAB)

\* The entries of the archive that are not the report.
IsImageEntry(e) == e.name # <<"_report.tsv">>

\* The output bytes the item processor returns for the first k inputs of the
\* run, in order: those of the supported inputs whose result has status ok
\* or target_not_met.
RECURSIVE ExpectedData(_)
ExpectedData(k) ==
    IF k = 0 THEN << >>
    ELSE IF CounterFor(k) \in {"succeeded", "warnings"}
    THEN Append(ExpectedData(k - 1),
                process_image(th.inputs[k].content, th.adapter, th.scale,
                              th.target_mb, MaxSizePasses,
                              max_output_pixels).output_bytes)
    ELSE ExpectedData(k - 1)

\* C11: when a job is done, its archive has exactly one _report.tsv entry;
\* its other entries are, in order, the output bytes of the inputs whose
\* result has status ok or target_not_met, one entry each and none for any
\* other input; the names of all entries are pairwise distinct; and the
\* number of image entries is succeeded + warnings.
C11_ArchiveEntries ==
    JobStatusIs("done") =>
        LET images == SelectSeq(th.zf, IsImageEntry)
            j == jobs[th.job_id]
        IN /\ Cardinality({n \in 1..Len(th.zf) : ~IsImageEntry(th.zf[n])}) = 1
           /\ [n \in 1..Len(images) |-> images[n].data]
                  = ExpectedData(Len(th.inputs))
           /\ \A m, n \in 1..Len(th.zf) :
                 th.zf[m].name = th.zf[n].name => m = n
           /\ Len(images) = j.succeeded + j.warnings

\* A done job of three inputs: two with the same sanitized name that both
\* produced an image, the second stored under the probed name, and one
\* without an entry.
C11_Witness ==
    /\ JobStatusIs("done")
    /\ Len(th.inputs) = 3
    /\ Len(th.zf) = 3
    /\ \E m, n \in 1..3 :
          /\ th.zf[m].name = <<"a", "_upscaled", ".jpg">>
          /\ th.zf[n].name = <<"a", "_upscaled", "_", "2", ".jpg">>


\* The process_image call that is followed has returned a result.
ProcReturned == proc.pc = "returned"

\* The result process_image computes as a whole for the arguments of the
\* call that is followed.
ProcWhole ==
    process_image(proc.content, proc.adapter, proc.scale, proc.target_mb,
                  proc.max_size_passes, proc.max_output_pixels)

\* The call followed step by step ends as process_image computed as a whole
\* does, the one the runner uses.
ProcStepsAgree ==
    proc.pc \in {"returned", "raised"} => proc.result = ProcWhole

\* C12: every result process_image returns has one of the four statuses; with
\* ok or target_not_met the output width, height, quality and size are
\* present and output bytes are returned; with failed_invalid or
\* failed_processing all four are absent and no output bytes are returned.
C12_ResultShape ==
    ProcReturned =>
        LET r == proc.result
        IN /\ r.status \in {"ok", "target_not_met", "failed_invalid",
                            "failed_processing"}
           /\ r.status \in {"ok", "target_not_met"} =>
                 /\ r.out_w # None /\ r.out_h # None
                 /\ r.quality # None /\ r.size_mb # None
                 /\ r.output_bytes # None
           /\ r.status \in {"failed_invalid", "failed_processing"} =>
                 /\ r.out_w = None /\ r.out_h = None
                 /\ r.quality = None /\ r.size_mb = None
                 /\ r.output_bytes = None

\* A call returned target_not_met with the output of its first pass, after
\* the second pass went over the pixel limit.
C12_Witness ==
    /\ ProcReturned
    /\ proc.result.status = "target_not_met"
    /\ proc.k = 2
    /\ proc.result.out_w = 400
    /\ proc.result.quality # None


\* The encodings the passes of the followed call produced, in order.
Encodings == SelectSeq(proc.trace, LAMBDA c : c.op = "encode")

\* C13: process_image returns ok exactly when some pass, within the pass cap,
\* produced an encoding of at least the target byte count, and then it
\* returns the bytes, quality and dimensions of the first such pass; a
\* result target_not_met carries bytes of a size strictly below the target.
C13_OkIffTargetReached ==
    ProcReturned =>
        LET r == proc.result
            target_bytes == TargetBytes(proc.target_mb)
            hits == {n \in 1..Len(Encodings) : Encodings[n].size >= target_bytes}
        IN /\ \A n \in 1..Len(Encodings) : Encodings[n].k <= proc.max_size_passes
           /\ r.status = "ok" <=> hits # {}
           /\ r.status = "ok" =>
                 LET first == CHOOSE n \in hits : \A m \in hits : n <= m
                 IN /\ r.output_bytes = Encodings[first].size
                    /\ r.quality = Encodings[first].q
                    /\ r.out_w = Encodings[first].w
                    /\ r.out_h = Encodings[first].h
                    /\ first = Len(Encodings)
           /\ r.status = "target_not_met" =>
                 /\ r.output_bytes # None
                 /\ r.output_bytes < target_bytes

\* A call returned ok from its second pass: the encoding of the first pass
\* was inside the tolerance band of the encoder but below the target.
C13_Witness ==
    /\ ProcReturned
    /\ proc.result.status = "ok"
    /\ Len(Encodings) = 2
    /\ Encodings[1].size < TargetBytes(proc.target_mb)
    /\ ~BelowBand(Encodings[1].size, TargetBytes(proc.target_mb))


\* The file is not a well-formed JPEG: it is of another format or cannot be
\* identified, or its pixel data is cut short and cannot be decoded.
Malformed(content) == content.format # "JPEG" \/ content.truncated

\* C14: for an input that fails decoding or validation, whatever the adapter,
\* scale, target size, pass cap and pixel limit, process_image returns
\* failed_invalid with no output bytes and no source dimensions, and it has
\* called neither the adapter nor the encoder.
C14_MalformedIsFailedInvalid ==
    (proc.pc \in {"returned", "raised"} /\ Malformed(proc.content)) =>
        /\ proc.pc = "returned"
        /\ proc.result.status = "failed_invalid"
        /\ proc.result.output_bytes = None
        /\ proc.result.src_w = None /\ proc.result.src_h = None
        /\ proc.trace = << >>

\* Supported input i of the run is one for which the memory runs out in the
\* first pass of the retry loop: the loop is reached and the adapter gets
\* as far as allocating.
OomOccurs(i) ==
    /\ Supported(th.inputs[i])
    /\ ~Malformed(th.inputs[i].content)
    /\ th.inputs[i].content.oom_pass = 1
    /\ th.adapter \in {"pillow", "ai"}
    /\ th.target_mb # NaN

\* C15: when the memory runs out in the retry loop of an input, the result
\* of that input is failed_processing with the source dimensions and no
\* output bytes, and the runner goes on past that input (th.idx moves
\* beyond it) instead of stopping there and failing the job.
C15_OutOfMemoryIsPerItem ==
    \A n \in 1..Len(calls) :
        LET i == calls[n]
            r == process_image(th.inputs[i].content, th.adapter, th.scale,
                               th.target_mb, MaxSizePasses, max_output_pixels)
        IN OomOccurs(i) =>
              /\ ~r.raised
              /\ r.status = "failed_processing"
              /\ r.src_w = th.inputs[i].content.w
              /\ r.src_h = th.inputs[i].content.h
              /\ r.output_bytes = None
              /\ th.idx > i

\* round(n / d), ties to the even neighbour as Python's round does.
Round(n, d) ==
    LET f == n \div d
        r == n % d
    IN IF 2 * r < d THEN f
       ELSE IF 2 * r > d THEN f + 1
       ELSE IF f % 2 = 0 THEN f ELSE f + 1

\* C17: the image every upscale call returns has width
\* round(input_width x scale) and height round(input_height x scale), each
\* at least 1, where scale is the scale factor of the pass; in the first
\* pass at scale 4 this is srcW x 4 by srcH x 4.
C17_UpscaleRounds ==
    proc.pc # "none" =>
        \A n \in 1..Len(proc.trace) :
            LET c == proc.trace[n]
            IN (c.op = "upscale" /\ c.w # None) =>
                  /\ c.w = Max(1, Round(proc.content.w * ScaleNum(proc.scale, c.k),
                                        ScaleDen(c.k)))
                  /\ c.h = Max(1, Round(proc.content.h * ScaleNum(proc.scale, c.k),
                                        ScaleDen(c.k)))
                  /\ c.w >= 1 /\ c.h >= 1

\* target_mb is not a number from min_target_mb to max_target_mb.
OutsideRange(target_mb) ==
    \/ target_mb = NaN
    \/ target_mb < min_target_mb
    \/ target_mb > max_target_mb

\* C19: a submission whose scale is below min_scale or whose target_mb lies
\* outside [min_target_mb, max_target_mb] is answered with the redirect to
\* the index page, and no job is created and no runner started for it; a
\* submission of at most max_files named files that meets both constraints
\* is accepted.
C19_BadSettingsRejected ==
    resp # "none" =>
        LET bad == Less(form.scale, min_scale) \/ OutsideRange(form.target_mb)
            files_ok == /\ form.files # << >>
                        /\ form.files[1].filename # << >>
                        /\ Len(form.files) <= max_files
        IN /\ bad => (resp = "redirect_index" /\ jobs = << >> /\ pc = "none")
           /\ (~bad /\ files_ok) => resp = "redirect_job"


\* The followed call of the encoder has returned.
EncReturned == encoder.pc = "returned"

\* The call followed step by step returns what _encode_jpeg_target_bytes
\* computed as a whole does, the one process_image uses.
EncStepsAgree ==
    EncReturned =>
        encoder.ret = _encode_jpeg_target_bytes(encoder.content, EncPixels,
                                                encoder.target_bytes)

\* The size is within 12% of the target, either way:
\* 0.88 * target_bytes <= size <= 1.12 * target_bytes.
InBand(size, target_bytes) ==
    25 * size >= 22 * target_bytes /\ 25 * size <= 28 * target_bytes

\* Some quality in [70, 98] encodes the image to a size in the band.
Reachable(content, target_bytes) ==
    \E q \in 70..98 : InBand(EncodedSize(content, EncPixels, q), target_bytes)

\* The encoded size of the image does not fall as the quality rises.
SizeRisesWithQuality(content) ==
    \A q \in 70..97 :
        EncodedSize(content, EncPixels, q) <= EncodedSize(content, EncPixels, q + 1)

\* C16, as stated: whenever some quality in [70, 98] encodes the image to a
\* size within 12% of the target, the encoding returned has a size within
\* 12% of the target.
C16_ReachableIsReturned ==
    (EncReturned /\ Reachable(encoder.content, encoder.target_bytes)) =>
        InBand(encoder.ret.size, encoder.target_bytes)

\* C16, amended: for an image whose encoded size does not fall as the
\* quality rises, whenever some quality in [70, 98] encodes it to a size
\* within 12% of the target, the encoding returned has a size within 12% of
\* the target.
C16_ReachableIsReturnedIfMonotone ==
    ( /\ EncReturned
      /\ SizeRisesWithQuality(encoder.content)
      /\ Reachable(encoder.content, encoder.target_bytes) ) =>
        /\ InBand(encoder.ret.size, encoder.target_bytes)
        /\ encoder.ret.q \in 70..98
        /\ encoder.ret.size = EncodedSize(encoder.content, EncPixels, encoder.ret.q)

\* The encoder returned an encoding in the band at its fifth probe, after
\* probes below and above the band.
C16_Witness ==
    /\ EncReturned
    /\ SizeRisesWithQuality(encoder.content)
    /\ Len(encoder.probes) = 5
    /\ InBand(encoder.ret.size, encoder.target_bytes)
    /\ \E m, n \in 1..4 :
          /\ BelowBand(encoder.probes[m].size, encoder.target_bytes)
          /\ AboveBand(encoder.probes[n].size, encoder.target_bytes)


\* stem_k.ext for a candidate name.
StemK(candidate, k) ==
    SplitExt(candidate)[1] \o <<"_", ToString(k)>> \o SplitExt(candidate)[2]

\* C18: after a call assignName(candidate, usedSet): a candidate that was not
\* in usedSet is returned as it is; otherwise stem_k.ext is returned for the
\* smallest k >= 2 for which it was not in usedSet.  The name returned was
\* not in usedSet before the call and is in it afterwards, and usedSet
\* gained nothing else; all names returned by the calls on one usedSet are
\* pairwise distinct.  With {a.jpg} used, a.jpg gives a_2.jpg; with a_2.jpg
\* used as well, a_3.jpg.
C18_AssignName ==
    (naming.pc = "open" /\ naming.returned # << >>) =>
        LET c == naming.last.candidate
            before == naming.last.before
            r == naming.last.name
        IN /\ c \notin before => r = c
           /\ c \in before =>
                 \E k \in 2..(Cardinality(before) + 2) :
                     /\ r = StemK(c, k)
                     /\ \A j \in 2..(k - 1) : StemK(c, j) \in before
           /\ r \notin before
           /\ naming.used = before \cup {r}
           /\ \A m, n \in 1..Len(naming.returned) :
                 naming.returned[m] = naming.returned[n] => m = n
           /\ (c = <<"a", ".jpg">> /\ before = {<<"a", ".jpg">>}) =>
                 r = <<"a", "_", "2", ".jpg">>
           /\ (c = <<"a", ".jpg">>
                 /\ before = {<<"a", ".jpg">>, <<"a", "_", "2", ".jpg">>}) =>
                 r = <<"a", "_", "3", ".jpg">>

\* Three calls for a.jpg on a used set that was empty: the third one found
\* a.jpg and a_2.jpg in use and returned a_3.jpg.
C18_Witness ==
    /\ naming.pc = "open"
    /\ naming.returned = <<<<"a", ".jpg">>, <<"a", "_", "2", ".jpg">>,
                           <<"a", "_", "3", ".jpg">>>>
    /\ naming.last.before = {<<"a", ".jpg">>, <<"a", "_", "2", ".jpg">>}


\* A job state with exactly the named fields assigned, in order.
RECURSIVE Assigned(_, _)
Assigned(state, kwargs) ==
    IF kwargs = << >> THEN state
    ELSE Assigned([state EXCEPT ![Head(kwargs)[1]] = Head(kwargs)[2]],
                  Tail(kwargs))

\* C20: whatever the interleaving of the threads, for every call that has
\* returned, with pre the registry when the call took the lock and post the
\* registry when it gave the lock up: create added one job under an
\* identifier no job had, with status queued, the given total and all
\* counters zero, and changed no existing job; update of a known job
\* assigned exactly the named fields of that job and changed nothing else;
\* update of an unknown identifier changed nothing; get changed nothing and
\* found the job exactly when it was in the registry.
C20_RegistryFrame ==
    \A t \in DOMAIN callers :
        LET c == callers[t]
        IN c.pc = "returned" =>
              /\ c.op = "create" =>
                    /\ c.job_id \notin DOMAIN c.pre
                    /\ DOMAIN c.post = DOMAIN c.pre \cup {c.job_id}
                    /\ \A id \in DOMAIN c.pre : c.post[id] = c.pre[id]
                    /\ c.post[c.job_id].status = "queued"
                    /\ c.post[c.job_id].total = c.total
                    /\ \A f \in {"processed", "succeeded", "failed", "skipped",
                                 "warnings"} : c.post[c.job_id][f] = 0
              /\ (c.op = "update" /\ c.job_id \in DOMAIN c.pre) =>
                    /\ DOMAIN c.post = DOMAIN c.pre
                    /\ c.post[c.job_id] = Assigned(c.pre[c.job_id], c.kwargs)
                    /\ \A id \in DOMAIN c.pre \ {c.job_id} : c.post[id] = c.pre[id]
              /\ (c.op = "update" /\ c.job_id \notin DOMAIN c.pre) =>
                    c.post = c.pre
              /\ c.op = "get" =>
                    /\ c.post = c.pre
                    /\ c.found <=> c.job_id \in DOMAIN c.pre

\* Both threads have updated the same job, one after the other, and both
\* calls have returned.
C20_Witness ==
    /\ DOMAIN callers = StoreThreads
    /\ \A t \in StoreThreads :
          /\ callers[t].pc = "returned"
          /\ callers[t].op = "update"
          /\ callers[t].job_id = "j1"
          /\ "j1" \in DOMAIN callers[t].pre
    /\ callers["t1"].kwargs # callers["t2"].kwargs
    /\ jobs["j1"].status = "processing"
    /\ jobs["j1"].processed = 1



\* Constructing the selected strategy fails: an AIFSRCNNAdapter is
\* constructed and its model can be neither found nor fetched, or not loaded.
ConstructionFails == ConstructsAI(config) /\ ~config.model_ok

JobCounters == {"processed", "succeeded", "failed", "skipped", "warnings"}

\* C21: when constructing the selected upscaling strategy fails, the runner
\* never gets to the per-item loop: process_image is called for no input and
\* every counter of the job keeps its initial value 0.  And in every run,
\* failing or not, each fetch of the model asset is made when the runner has
\* started on no input yet.
C21_FailsBeforeAnyItem ==
    /\ \A i \in DOMAIN fetches : fetches[i] = 0
    /\ ConstructionFails =>
         /\ pc \in {"none", "start", "died"}
         /\ th.idx = 0
         /\ calls = << >>
         /\ \A j \in DOMAIN jobs : \A c \in JobCounters : jobs[j][c] = 0

\* A job of two inputs was submitted, the model file was not on disk, the
\* fetch was made and the construction failed.
C21_Witness ==
    /\ ConstructionFails
    /\ pc = "died"
    /\ fetches = <<0>>
    /\ \E j \in DOMAIN jobs : jobs[j].total = 2


\* The call returned because its range was exhausted (line 110): a return
\* from inside the loop leaves low <= high.
EncExhausted == EncReturned /\ encoder.low > encoder.high

\* abs(size - target_bytes) of a probe of the call followed.
EncGap(probe) == Abs(probe.size - encoder.target_bytes)

\* C22: when the encoder exhausts its range with no probe inside the
\* tolerance band, what it returns is one of the probes of the call, no
\* probe of the call is nearer to the target in absolute distance, and its
\* quality is in [70, 98].
C22_ExhaustedReturnsClosest ==
    EncExhausted =>
        /\ \A i \in DOMAIN encoder.probes :
              ~InBand(encoder.probes[i].size, encoder.target_bytes)
        /\ \E i \in DOMAIN encoder.probes : encoder.probes[i] = encoder.ret
        /\ \A i \in DOMAIN encoder.probes :
              EncGap(encoder.ret) <= EncGap(encoder.probes[i])
        /\ encoder.ret.q \in 70..98

\* The range was exhausted and the encoding returned is an earlier probe,
\* strictly nearer to the target than the last one.
C22_Witness ==
    /\ EncExhausted
    /\ Len(encoder.probes) = 5
    /\ encoder.ret # encoder.probes[5]
    /\ EncGap(encoder.ret) < EncGap(encoder.probes[5])


\* The most quality levels left in low..high after 0, 1, ... 5 probes of a
\* call that is still in its loop.
LevelsLeft == <<29, 14, 7, 3, 1, 0>>

\* C23: every call of the encoder returns, and it makes at most 5 probes:
\* while the call is in its loop after n probes, n is at most 5 and at most
\* LevelsLeft[n + 1] quality levels are left, whatever the sizes probed.
C23_ReturnsWithinFiveProbes ==
    /\ [](encoder.pc \in {"loop", "returned"} =>
            /\ Len(encoder.probes) <= 5
            /\ encoder.pc = "loop" =>
                 encoder.high - encoder.low + 1
                     <= LevelsLeft[Len(encoder.probes) + 1])
    /\ (encoder.pc = "loop") ~> EncReturned

\* A call returned after five probes, none of them in the band.
C23_Witness ==
    /\ EncExhausted
    /\ Len(encoder.probes) = 5
    /\ encoder.ret = encoder.probes[5]


\* The last call the followed process_image made.
LastCalled == proc.trace[Len(proc.trace)]

\* The last call was adapter.upscale and the image it returned has more than
\* max_output_pixels pixels.
OverPixelLimit ==
    /\ proc.pc # "none"
    /\ proc.trace # << >>
    /\ LastCalled.op = "upscale"
    /\ LastCalled.w # None
    /\ LastCalled.w * LastCalled.h > proc.max_output_pixels

\* C24: when the image adapter.upscale returned in a pass has more than
\* max_output_pixels pixels, the pass is not encoded, no further pass is
\* made and nothing is raised; in pass 1 the result is failed_processing
\* without output bytes, in a later pass it is target_not_met with the
\* dimensions, quality and bytes of the encoding of the pass before, the
\* last one encoded.
C24_OverPixelLimitStopsLoop ==
    OverPixelLimit =>
        LET k == LastCalled.k
            r == proc.result
        IN /\ proc.pc \in {"after", "returned"}
           /\ \A n \in 1..Len(Encodings) : Encodings[n].k < k
           /\ Len(Encodings) = k - 1
           /\ (ProcReturned /\ k = 1) =>
                 /\ r.status = "failed_processing"
                 /\ r.output_bytes = None
                 /\ r.out_w = None /\ r.out_h = None /\ r.quality = None
           /\ (ProcReturned /\ k > 1) =>
                 LET e == Encodings[Len(Encodings)]
                 IN /\ e.k = k - 1
                    /\ r.status = "target_not_met"
                    /\ r.out_w = e.w /\ r.out_h = e.h
                    /\ r.quality = e.q
                    /\ r.output_bytes = e.size

\* A call with the AI adapter returned after its first pass was encoded
\* below the target and its second pass went over the pixel limit.
C24_Witness ==
    /\ OverPixelLimit
    /\ ProcReturned
    /\ proc.adapter = "ai"
    /\ LastCalled.k = 2
    /\ proc.result.output_bytes = Encodings[1].size
    /\ LastCalled.w > Encodings[1].w



\* The calls of adapter.upscale the followed call made, in order.
Upscales == SelectSeq(proc.trace, LAMBDA c : c.op = "upscale")

\* The followed call was given a well-formed JPEG, a scale and a target.
ValidInput ==
    /\ proc.pc # "none"
    /\ ~Malformed(proc.content)
    /\ proc.scale # NaN
    /\ proc.target_mb # NaN

\* The n-th call of adapter.upscale is the one of pass n, and the image it
\* returned has the size of the source at scale * 1.15^(n-1).
PassScales ==
    \A n \in 1..Len(Upscales) :
        /\ Upscales[n].k = n
        /\ Upscales[n].w # None =>
              /\ Upscales[n].w =
                    Max(1, (proc.content.w * proc.scale * Pow(115, n - 1))
                               \div Pow(100, n - 1))
              /\ Upscales[n].h =
                    Max(1, (proc.content.h * proc.scale * Pow(115, n - 1))
                               \div Pow(100, n - 1))

\* An encoding that reached the target is the last call made.
NoPassAfterTarget ==
    \A n \in 1..Len(proc.trace) :
        ( /\ proc.trace[n].op = "encode"
          /\ proc.trace[n].size >= TargetBytes(proc.target_mb) ) =>
            n = Len(proc.trace)

\* C25: for a valid input process_image calls adapter.upscale at most
\* max_size_passes times and ends by returning a result, never by raising;
\* pass 1 uses the caller's scale, pass n the scale times 1.15^(n-1), and no
\* pass follows an encoding that reached the target.
C25_BoundedPassesEndInResult ==
    ValidInput =>
        /\ Len(Upscales) <= proc.max_size_passes
        /\ PassScales
        /\ NoPassAfterTarget
        /\ proc.pc # "raised"

====
